---------------------------- MODULE Spec2Model ----------------------------
(***************************************************************************)
(* Model of scripts/update_space_readme.py: the sequential pipeline        *)
(*   startup credential check -> update_readme_file ->                     *)
(*   generate_readme_content -> three formatters (each one fetch) ->       *)
(*   write of README.md.                                                   *)
(*                                                                         *)
(* Text is modelled as a sequence of lines, a line as a sequence of        *)
(* tokens (strings without a newline).  A text <<l1, ..., ln>> stands for  *)
(* l1 "\n" l2 "\n" ... ln, so concatenating two texts joins the last line  *)
(* of the first with the first line of the second, as string               *)
(* concatenation does.  Emoji of the literals are left out of the tokens.  *)
(***************************************************************************)
EXTENDS Integers, Sequences, FiniteSets, TLC

VARIABLES
    pc,                   \* position of the single thread of control
    NASA_API_KEY,         \* os.getenv('NASA_API_KEY'): [set, val]
    exitCode,             \* process exit status, -1 while running
    raised,               \* exception that escaped to the top level, or "none"
    printed,              \* lines written to stdout, in order
    httpGets,             \* requests.get calls issued, in order
    fetched,              \* per source: the GET's outcome, fetch_api_data's return and prints
    apod_section_md,
    people_section_md,
    iss_section_md,
    current_update_time,
    new_readme_content,
    readmeFile,           \* content of ../README.md
    writeAttempts         \* number of open(readme_path, "w") attempts

vars == <<pc, NASA_API_KEY, exitCode, raised, printed, httpGets, fetched,
          apod_section_md, people_section_md, iss_section_md,
          current_update_time, new_readme_content, readmeFile, writeAttempts>>

\* Longest people list a payload carries.
MaxPeople == 2

---------------------------------------------------------------------------
\* Constants of the script.

APOD_API_URL == "https://api.nasa.gov/planetary/apod"

PEOPLE_IN_SPACE_API_URL == "http://api.open-notify.org/astros.json"

ISS_LOCATION_API_URL == "http://api.open-notify.org/iss-now.json"

\* Default of fetch_api_data's timeout parameter.
DefaultTimeout == 15

Sources == {"apod", "people", "iss"}

---------------------------------------------------------------------------
\* Text: sequences of lines of tokens.

EmptyLine == <<>>

\* String concatenation a + b on texts.
Concat(a, b) ==
    IF Len(a) = 0 THEN b
    ELSE IF Len(b) = 0 THEN a
    ELSE SubSeq(a, 1, Len(a) - 1) \o <<a[Len(a)] \o b[1]>> \o SubSeq(b, 2, Len(b))

\* A text of one line holding the given tokens.
Inline(tokens) == <<tokens>>

\* A line with nothing but whitespace.
IsBlank(line) == \A i \in 1..Len(line) : line[i] = ""

RECURSIVE LStrip(_)
LStrip(t) ==
    IF Len(t) = 0 THEN t
    ELSE IF IsBlank(t[1]) THEN LStrip(Tail(t))
    ELSE t

RECURSIVE RStrip(_)
RStrip(t) ==
    IF Len(t) = 0 THEN t
    ELSE IF IsBlank(t[Len(t)]) THEN RStrip(SubSeq(t, 1, Len(t) - 1))
    ELSE t

\* str.strip(): leading and trailing whitespace removed.
Strip(t) == RStrip(LStrip(t))

---------------------------------------------------------------------------
\* JSON values and Python's view of them.

JNull == [type |-> "null"]

JObject(f) == [type |-> "object", fields |-> f]

JArray(s) == [type |-> "array", items |-> s]

JString(s) == [type |-> "string", s |-> s]

JNumber(n) == [type |-> "number", v |-> n]

\* Python truth value of a decoded JSON value (None, {}, [], "", 0 are false).
Truthy(j) ==
    CASE j.type = "null" -> FALSE
      [] j.type = "object" -> DOMAIN j.fields # {}
      [] j.type = "array" -> Len(j.items) > 0
      [] j.type = "string" -> j.s # ""
      [] j.type = "number" -> j.v # 0

\* dict.get(key, default)
Get(f, key, default) == IF key \in DOMAIN f THEN f[key] ELSE default

\* Whether value.get(...) exists: only a dict has the method.
HasGet(j) == j.type = "object"

\* The mapping f with key k set to v.
Extend(f, k, v) == [j \in DOMAIN f \cup {k} |-> IF j = k THEN v ELSE f[j]]

\* All mappings from a subset of the keys to values of the given per-key sets.
RECURSIVE Objects(_)
Objects(vals) ==
    IF DOMAIN vals = {} THEN {vals}
    ELSE LET k == CHOOSE j \in DOMAIN vals : TRUE
             sub == Objects([j \in DOMAIN vals \ {k} |-> vals[j]])
         IN sub \cup {Extend(f, k, v) : f \in sub, v \in vals[k]}

---------------------------------------------------------------------------
\* Calendar: datetime.fromtimestamp(t, tz=timezone.utc).strftime(...)

Digit(d) == ToString(d)

\* n in decimal, zero padded to w digits, one token per digit.
RECURSIVE Pad(_, _)
Pad(n, w) == IF w = 0 THEN <<>> ELSE Pad(n \div 10, w - 1) \o <<Digit(n % 10)>>

\* Civil date of a day number counted from 1970-01-01 (proleptic Gregorian).
CivilFromDays(days) ==
    LET z == days + 719468
        era == z \div 146097
        doe == z - era * 146097
        yoe == (doe - doe \div 1460 + doe \div 36524 - doe \div 146096) \div 365
        doy == doe - (365 * yoe + yoe \div 4 - yoe \div 100)
        mp == (5 * doy + 2) \div 153
        d == doy - (153 * mp + 2) \div 5 + 1
        m == IF mp < 10 THEN mp + 3 ELSE mp - 9
        y == yoe + era * 400 + (IF m <= 2 THEN 1 ELSE 0)
    IN [year |-> y, month |-> m, day |-> d]

\* datetime.fromtimestamp(t, tz=utc) for an integer t the platform accepts.
FromTimestamp(t) ==
    LET days == t \div 86400
        secs == t % 86400
        c == CivilFromDays(days)
    IN [year |-> c.year, month |-> c.month, day |-> c.day,
        hour |-> secs \div 3600, minute |-> (secs % 3600) \div 60,
        second |-> secs % 60]

\* dt.strftime('%Y-%m-%d %H:%M:%S UTC')
Strftime(dt) ==
    Pad(dt.year, 4) \o <<"-">> \o Pad(dt.month, 2) \o <<"-">> \o Pad(dt.day, 2)
    \o <<" ">> \o Pad(dt.hour, 2) \o <<":">> \o Pad(dt.minute, 2) \o <<":">>
    \o Pad(dt.second, 2) \o <<" UTC">>

---------------------------------------------------------------------------
\* Outcomes of one requests.get(url, params=params, timeout=timeout).

\* The call raised the named requests exception instead of returning.
Failure(kind) == [kind |-> kind, status |-> 0, text |-> <<>>, body |-> JNull]

\* The call returned a response; body is the decoded JSON the text holds, or
\* InvalidJson(cls).
Response(status, text, body) ==
    [kind |-> "response", status |-> status, text |-> text, body |-> body]

\* A body that is not JSON.  response.json() raises a JSONDecodeError, which
\* is a ValueError and, from requests 2.27 on, a RequestException as well:
\* cls names the except clause of fetch_api_data that catches it.
InvalidJson(cls) == [type |-> "invalid", cls |-> cls]

\* Variant: only server errors raise.
RaisesFor5xxOnly(status) == status >= 500 /\ status < 600

\* response.raise_for_status(): HTTPError for 4xx and 5xx status codes.
RaisesForStatus(status) == status >= 400 /\ status < 600

\* One print(...) call: the text it writes.
Msg(tokens) == Inline(tokens)

\* The try/except of fetch_api_data when requests.get ends as outcome o: what
\* is returned (JNull is None) and what is printed.
FetchReturn(url, params, timeout, o) ==
    CASE o.kind = "Timeout" ->
           [ret |-> JNull,
            log |-> <<Msg(<<"ERROR: Request to ", url, " timed out after ",
                           ToString(timeout), " seconds.">>)>>]
      [] o.kind = "ConnectionError" ->
           [ret |-> JNull,
            log |-> <<Msg(<<"ERROR: Could not connect to ", url,
                           ". Check internet connection or API availability.">>)>>]
      [] o.kind = "RequestException" ->
           [ret |-> JNull,
            log |-> <<Msg(<<"ERROR: An unexpected error occurred while fetching data from ",
                           url, ": ", "TooManyRedirects">>)>>]
      [] o.kind = "response" /\ RaisesForStatus(o.status) ->
           [ret |-> JNull,
            log |-> <<Concat(Msg(<<"ERROR: HTTP error ", ToString(o.status),
                                  " from ", url, ": ">>), o.text)>>]
      [] o.kind = "response" /\ ~RaisesForStatus(o.status) /\ o.body.type = "invalid" ->
           [ret |-> JNull,
            log |-> IF o.body.cls = "RequestException"
                    THEN <<Msg(<<"ERROR: An unexpected error occurred while fetching data from ",
                                 url, ": ", "JSONDecodeError">>)>>
                    ELSE <<Msg(<<"ERROR: Failed to decode JSON from response from ",
                                 url, ".">>)>>]
      [] o.kind = "response" /\ ~RaisesForStatus(o.status) /\ o.body.type # "invalid" ->
           [ret |-> o.body, log |-> <<>>]

\* One requests.get call.
GetCall(url, params, timeout) == [url |-> url, params |-> params, timeout |-> timeout]

\* params=None
NoParams == [set |-> FALSE, api_key |-> ""]

\* fetch_api_data(url, params, timeout): the single requests.get it issues, its
\* return value and its diagnostics.
FetchApiData(url, params, timeout, o) ==
    LET r == FetchReturn(url, params, timeout, o)
    IN [ret |-> r.ret, log |-> r.log, gets |-> <<GetCall(url, params, timeout)>>]

---------------------------------------------------------------------------
\* get_apod_content

ApodHeading == <<"### Astronomy Picture of the Day (APOD)">>

ApodFallback ==
    <<EmptyLine,
      ApodHeading,
      EmptyLine,
      <<"Could not retrieve today's Astronomy Picture of the Day. Please check back later!">>,
      EmptyLine>>

ImageNotAvailable == "https://via.placeholder.com/600x400.png?text=Image+Not+Available"

VideoPlaceholder == "https://via.placeholder.com/600x400.png?text=APOD+Video"

\* Variant: the standard URL preferred over the high-definition one.
ApodImageUrlStandardFirst(f) ==
    IF Get(f, "media_type", "") = "video"
    THEN Get(f, "thumbnail_url", VideoPlaceholder)
    ELSE Get(f, "url", Get(f, "hdurl", ImageNotAvailable))

\* Lines 88-97: the image reference.
ApodImageUrl(f) ==
    IF Get(f, "media_type", "") = "video"
    THEN Get(f, "thumbnail_url", VideoPlaceholder)
    ELSE Get(f, "hdurl", Get(f, "url", ImageNotAvailable))

\* Variant: the video note links to the image reference instead of the url.
ApodExplanationLinksHd(f) ==
    LET explanation == Get(f, "explanation", "No explanation available.")
    IN IF Get(f, "media_type", "") = "video"
       THEN <<<<explanation>>,
              EmptyLine,
              <<"*Note: Today's APOD is a video. ",
                "[Watch Today's APOD Video](", Get(f, "hdurl", "#"), ")", "*">>>>
       ELSE <<<<explanation>>>>

\* Lines 88-97: explanation_formatted.
ApodExplanation(f) ==
    LET explanation == Get(f, "explanation", "No explanation available.")
    IN IF Get(f, "media_type", "") = "video"
       THEN <<<<explanation>>,
              EmptyLine,
              <<"*Note: Today's APOD is a video. ",
                "[Watch Today's APOD Video](", Get(f, "url", "#"), ")", "*">>>>
       ELSE <<<<explanation>>>>

\* Lines 81-109: the fragment of a payload that is a mapping.
ApodContent(f) ==
    LET title == Get(f, "title", "No Title Available")
        date == Get(f, "date", "Unknown Date")
    IN Concat(<<EmptyLine,
                ApodHeading,
                EmptyLine,
                <<"![", title, "](", ApodImageUrl(f), ")">>,
                <<"**Title:** ", title>>,
                <<"**Date:** ", date>>,
                EmptyLine,
                EmptyLine>>,
              Concat(ApodExplanation(f), <<EmptyLine, EmptyLine>>))

\* Whether the formatter takes its fallback branch ("if not data").
ApodAbsent(data) == ~Truthy(data)

\* get_apod_content after the fetch returned data: the fragment, or the
\* exception data.get raises on a value that is no mapping.
FormatApod(data) ==
    IF ApodAbsent(data) THEN [raised |-> "none", md |-> ApodFallback]
    ELSE IF ~HasGet(data) THEN [raised |-> "AttributeError", md |-> <<>>]
    ELSE [raised |-> "none", md |-> ApodContent(data.fields)]

---------------------------------------------------------------------------
\* get_people_in_space_content

PeopleHeading == <<"### Humans Among the Stars">>

PeopleFallback ==
    <<EmptyLine,
      PeopleHeading,
      EmptyLine,
      <<"Could not retrieve data on people in space. Please check back later!">>,
      EmptyLine>>

NoNamesBullet == <<"* No specific names available at this time.">>

\* One iteration of the loop of line 132-133.
PersonBullet(person) ==
    <<"* ", Get(person.fields, "name", "Unknown Astronaut"),
      " (", Get(person.fields, "craft", "Unknown Craft"), ")">>

\* Variant: "=" for "+=" in the loop, so only the last bullet is kept.
PeopleListMdLastOnly(people) ==
    IF Len(people) > 0
    THEN <<PersonBullet(people[Len(people)]), EmptyLine>>
    ELSE <<NoNamesBullet, EmptyLine>>

\* people_list_md (lines 130-135) for a list whose entries are all mappings:
\* each bullet ends with a newline.
PeopleListMd(people) ==
    IF Len(people) > 0
    THEN [i \in 1..(Len(people) + 1) |->
             IF i <= Len(people) THEN PersonBullet(people[i]) ELSE EmptyLine]
    ELSE <<NoNamesBullet, EmptyLine>>

\* The count line (line 140).
PeopleCountLine(number) ==
    <<"There are currently **", ToString(number), "** people in space!">>

\* Lines 127-145: the fragment of a payload that is a mapping with mapping entries.
PeopleContent(f) ==
    LET number == Get(f, "number", 0)
        people == Get(f, "people", <<>>)
    IN Concat(<<EmptyLine,
                PeopleHeading,
                EmptyLine,
                PeopleCountLine(number),
                EmptyLine,
                <<"**Onboard:**">>,
                EmptyLine>>,
              Concat(PeopleListMd(people), <<EmptyLine, EmptyLine>>))

PeopleAbsent(data) == ~Truthy(data)

\* get_people_in_space_content after the fetch returned data.
FormatPeople(data) ==
    IF PeopleAbsent(data) THEN [raised |-> "none", md |-> PeopleFallback]
    ELSE IF ~HasGet(data) THEN [raised |-> "AttributeError", md |-> <<>>]
    ELSE IF \E i \in 1..Len(Get(data.fields, "people", <<>>)) :
                ~HasGet(Get(data.fields, "people", <<>>)[i])
         THEN [raised |-> "AttributeError", md |-> <<>>]
    ELSE [raised |-> "none", md |-> PeopleContent(data.fields)]

---------------------------------------------------------------------------
\* get_iss_location_content

IssHeading == <<"### Where is the ISS Right Now?">>

\* Variant: the fallback text copied from the people formatter and not adapted.
IssFallbackCopied ==
    <<EmptyLine,
      IssHeading,
      EmptyLine,
      <<"Could not retrieve data on people in space. Please check back later!">>,
      EmptyLine>>

IssFallback ==
    <<EmptyLine,
      IssHeading,
      EmptyLine,
      <<"Could not retrieve ISS location data. Please check back later!">>,
      EmptyLine>>

\* Timestamp values of a payload: an integer the platform's time_t holds and
\* whose year is in 1..9999 (v), and one value of each kind that
\* datetime.fromtimestamp rejects.
TsInt(n) == [t |-> "int", v |-> n]

TsString == [t |-> "string", v |-> 0]   \* a non-empty string such as "soon"

TsNaN == [t |-> "nan", v |-> 0]         \* the float NaN

TsFarYear == [t |-> "far", v |-> 0]     \* a number of a year after 9999, e.g. 10**12

TsHuge == [t |-> "huge", v |-> 0]       \* a number beyond time_t, e.g. 1e20

\* Python truth value of a timestamp value ("if timestamp:").
TsTruthy(ts) == IF ts.t = "int" THEN ts.v # 0 ELSE TRUE

\* The exception datetime.fromtimestamp(ts, tz=timezone.utc) raises, or "none".
FromTimestampRaises(ts) ==
    CASE ts.t = "int" -> "none"
      [] ts.t = "string" -> "TypeError"
      [] ts.t = "nan" -> "ValueError"
      [] ts.t = "far" -> "ValueError"
      [] ts.t = "huge" -> "OverflowError"

\* The exceptions the except clause of line 174 names.
TimestampHandled == {"TypeError", "ValueError"}

\* Lines 169-177: iss_timestamp_utc, or the exception that escapes.
IssTimestamp(f) ==
    IF "timestamp" \in DOMAIN f /\ TsTruthy(f["timestamp"])
    THEN LET e == FromTimestampRaises(f["timestamp"])
         IN IF e = "none"
            THEN [raised |-> "none",
                  tokens |-> Strftime(FromTimestamp(f["timestamp"].v))]
            ELSE IF e \in TimestampHandled
            THEN [raised |-> "none", tokens |-> <<"Invalid Timestamp">>]
            ELSE [raised |-> e, tokens |-> <<>>]
    ELSE [raised |-> "none", tokens |-> <<"N/A">>]

\* The backquote character, which a TLA+ string cannot hold.
Backquote == "<backquote>"

\* Lines 179-189: the fragment, given the position mapping and the timestamp text.
IssContent(pos, stamp) ==
    <<EmptyLine,
      IssHeading,
      EmptyLine,
      <<"The International Space Station is currently located at:">>,
      <<"* **Latitude:** ", Backquote, Get(pos, "latitude", "N/A"), Backquote>>,
      <<"* **Longitude:** ", Backquote, Get(pos, "longitude", "N/A"), Backquote>>,
      <<"*(As of ">> \o stamp \o <<")*">>,
      EmptyLine,
      <<"*(Note: Coordinates update hourly. For a live map, you can visit [Where The ISS At?](http://wheretheiss.at/))*">>,
      EmptyLine>>

IssAbsent(data) == ~Truthy(data)

\* get_iss_location_content after the fetch returned data.
FormatIss(data) ==
    IF IssAbsent(data) THEN [raised |-> "none", md |-> IssFallback]
    ELSE IF ~HasGet(data) THEN [raised |-> "AttributeError", md |-> <<>>]
    ELSE LET pos == Get(data.fields, "iss_position", JObject(<<>>))
             stamp == IssTimestamp(data.fields)
         IN IF ~HasGet(pos) THEN [raised |-> "AttributeError", md |-> <<>>]
            ELSE IF stamp.raised # "none" THEN [raised |-> stamp.raised, md |-> <<>>]
            ELSE [raised |-> "none", md |-> IssContent(pos.fields, stamp.tokens)]

---------------------------------------------------------------------------
\* generate_readme_content

Separator == <<"---">>

Header ==
    <<"# Welcome to my GitHub profile! This README is dynamically updated with fascinating insights from the cosmos.">>

LastUpdatedLine(stamp) == <<"*Last updated: ">> \o stamp \o <<"*">>

\* "\n\n---\n\n"
SeparatorText == <<EmptyLine, EmptyLine, Separator, EmptyLine, EmptyLine>>

\* Variant: the people and ISS fragments swapped in the template.
ReadmeTemplateSwapped(apod, people, iss, stamp) ==
    Strip(Concat(<<EmptyLine, Header, EmptyLine, EmptyLine>>,
          Concat(apod,
          Concat(SeparatorText,
          Concat(iss,
          Concat(SeparatorText,
          Concat(people,
          Concat(SeparatorText,
                 <<LastUpdatedLine(stamp), EmptyLine>>))))))))

\* Lines 211-228: the template filled in, then stripped.
ReadmeTemplate(apod, people, iss, stamp) ==
    Strip(Concat(<<EmptyLine, Header, EmptyLine, EmptyLine>>,
          Concat(apod,
          Concat(SeparatorText,
          Concat(people,
          Concat(SeparatorText,
          Concat(iss,
          Concat(SeparatorText,
                 <<LastUpdatedLine(stamp), EmptyLine>>))))))))

---------------------------------------------------------------------------
\* The environment: what the three endpoints, the clock and the file system
\* may answer.

\* Decoded bodies that are no non-empty mapping.
OddBodies ==
    {JNull, JObject(<<>>), JArray(<<>>), JArray(<<JString("x")>>),
     JString("maintenance"), JNumber(0)}

ApodFields ==
    Objects([title |-> {"Moon"},
             explanation |-> {"A picture.", "---"},
             date |-> {"2024-01-01"},
             media_type |-> {"image", "video"},
             hdurl |-> {"hd.jpg"},
             url |-> {"std.jpg"},
             thumbnail_url |-> {"thumb.jpg"}])

TypicalApod ==
    JObject([title |-> "Moon", explanation |-> "A picture.", date |-> "2024-01-01",
             media_type |-> "image", hdurl |-> "hd.jpg", url |-> "std.jpg"])

PersonValues ==
    {JObject([name |-> "A", craft |-> "ISS"]),
     JObject([name |-> "B", craft |-> "Tiangong"]),
     JObject([name |-> "C"]),
     JObject([craft |-> "ISS"]),
     JString("D")}

PeopleLists == UNION { [1..n -> PersonValues] : n \in 0..MaxPeople }

PeopleFields == Objects([number |-> {0, 2}, people |-> PeopleLists])

TypicalPeople ==
    JObject([number |-> 2,
             people |-> <<JObject([name |-> "A", craft |-> "ISS"]),
                          JObject([name |-> "B", craft |-> "Tiangong"])>>])

PositionValues ==
    {JObject(f) : f \in Objects([latitude |-> {"51.5"}, longitude |-> {"-0.12"}])}
    \cup {JString("unknown")}

TimestampValues ==
    {TsInt(n) : n \in {0, 1, -1, 951782400, 1700000000, 2147483647}}
    \cup {TsString, TsNaN, TsFarYear, TsHuge}

IssFields == Objects([iss_position |-> PositionValues, timestamp |-> TimestampValues])

TypicalIss ==
    JObject([iss_position |-> JObject([latitude |-> "51.5", longitude |-> "-0.12"]),
             timestamp |-> TsInt(1700000000)])

\* The outcomes of a GET whose decodable bodies are the given ones.
Outcomes(bodies, typical) ==
    {Failure(k) : k \in {"Timeout", "ConnectionError", "RequestException"}}
    \cup {Response(404, <<<<"Not Found">>>>, JNull),
          Response(503, <<<<"<html>">>, <<"Service Unavailable</html>">>>>, JNull)}
    \cup {Response(200, <<>>, b) :
            b \in bodies \cup {InvalidJson("ValueError"), InvalidJson("RequestException")}}
    \cup {Response(300, <<>>, b) : b \in {typical, InvalidJson("ValueError")}}

\* The outcomes every source may take in every run.
CoreOutcomes(typical) ==
    {Failure("Timeout"), Response(200, <<>>, typical),
     Response(200, <<>>, JArray(<<JString("x")>>))}

ApodOutcomes == Outcomes({JObject(f) : f \in ApodFields} \cup OddBodies, TypicalApod)

PeopleOutcomes == Outcomes({JObject(f) : f \in PeopleFields} \cup OddBodies, TypicalPeople)

IssOutcomes == Outcomes({JObject(f) : f \in IssFields} \cup OddBodies, TypicalIss)

Typical(src) ==
    CASE src = "apod" -> TypicalApod
      [] src = "people" -> TypicalPeople
      [] src = "iss" -> TypicalIss

\* The runs explored: at most one source answers outside its core outcomes.
Admissible(src, o, earlier) ==
    \/ o \in CoreOutcomes(Typical(src))
    \/ \A e \in earlier : fetched[e].outcome \in CoreOutcomes(Typical(e))

\* Values of the UTC clock, in seconds since the epoch.
Clocks == {1700000000, 1709251199}

KeyValues ==
    {[set |-> FALSE, val |-> ""], [set |-> TRUE, val |-> ""], [set |-> TRUE, val |-> "DEMO_KEY"]}

OldReadme == <<<<"# Old profile">>>>

WriteOutcomes == {"ok", "open_fails", "write_fails"}

ReadmePath == "scripts/../README.md"

---------------------------------------------------------------------------
\* The program.

NotFetched == [called |-> FALSE, outcome |-> Failure("none"), ret |-> JNull, log |-> <<>>]

Init ==
    /\ pc = "start"
    /\ NASA_API_KEY \in KeyValues
    /\ exitCode = -1
    /\ raised = "none"
    /\ printed = <<>>
    /\ httpGets = <<>>
    /\ fetched = [src \in Sources |-> NotFetched]
    /\ apod_section_md = <<>>
    /\ people_section_md = <<>>
    /\ iss_section_md = <<>>
    /\ current_update_time = <<>>
    /\ new_readme_content = <<>>
    /\ readmeFile = OldReadme
    /\ writeAttempts = 0

\* Variant: the check written as "if NASA_API_KEY is None".
KeyMissingOnlyUnset(key) == ~key.set

\* "if not NASA_API_KEY": None and "" are both false.
KeyMissing(key) == ~key.set \/ key.val = ""

\* Lines 15-23 and 254-255: the module body.
Startup ==
    /\ pc = "start"
    /\ IF KeyMissing(NASA_API_KEY)
       THEN /\ printed' = printed \o
                  <<Msg(<<"ERROR: NASA_API_KEY environment variable not found.">>),
                    Msg(<<"Please ensure it's set as a GitHub Secret (NASA_API_KEY) in your repository settings.">>),
                    Msg(<<"For local testing, set it in your terminal: export NASA_API_KEY='YOUR_KEY'">>)>>
            /\ exitCode' = 1
            /\ pc' = "exited"
       ELSE /\ pc' = "update_readme_file"
            /\ UNCHANGED <<printed, exitCode>>
    /\ UNCHANGED <<NASA_API_KEY, raised, httpGets, fetched, apod_section_md,
                   people_section_md, iss_section_md, current_update_time,
                   new_readme_content, readmeFile, writeAttempts>>

\* Lines 235-236 and 198: update_readme_file starts and generate_readme_content
\* reads the clock.
BeginUpdate ==
    /\ pc = "update_readme_file"
    /\ \E now \in Clocks : current_update_time' = Strftime(FromTimestamp(now))
    /\ printed' = printed \o <<Msg(<<"Starting README update process...">>)>>
    /\ pc' = "get_apod_content"
    /\ UNCHANGED <<NASA_API_KEY, exitCode, raised, httpGets, fetched, apod_section_md,
                   people_section_md, iss_section_md, new_readme_content,
                   readmeFile, writeAttempts>>

\* What a formatter's call leaves behind, fragment aside: its prints, its GET,
\* and the exception (if any) unwinding the whole program.
Formatted(src, banner, o, r, c, next) ==
    /\ printed' = printed \o <<Msg(<<banner>>)>> \o r.log
    /\ httpGets' = httpGets \o r.gets
    /\ fetched' = [fetched EXCEPT ![src] = [called |-> TRUE, outcome |-> o,
                                             ret |-> r.ret, log |-> r.log]]
    /\ IF c.raised = "none"
       THEN pc' = next /\ UNCHANGED <<raised, exitCode>>
       ELSE pc' = "aborted" /\ raised' = c.raised /\ exitCode' = 1

\* Line 201: apod_section_md = get_apod_content()
GetApodContent ==
    /\ pc = "get_apod_content"
    /\ \E o \in ApodOutcomes :
         LET r == FetchApiData(APOD_API_URL,
                               [set |-> TRUE, api_key |-> NASA_API_KEY.val],
                               DefaultTimeout, o)
             c == FormatApod(r.ret)
         IN /\ Admissible("apod", o, {})
            /\ Formatted("apod", "Fetching APOD data...", o, r, c,
                         "get_people_in_space_content")
            /\ apod_section_md' = IF c.raised = "none" THEN c.md ELSE apod_section_md
    /\ UNCHANGED <<NASA_API_KEY, people_section_md, iss_section_md,
                   current_update_time, new_readme_content, readmeFile, writeAttempts>>

\* Line 202: people_section_md = get_people_in_space_content()
GetPeopleInSpaceContent ==
    /\ pc = "get_people_in_space_content"
    /\ \E o \in PeopleOutcomes :
         LET r == FetchApiData(PEOPLE_IN_SPACE_API_URL, NoParams, DefaultTimeout, o)
             c == FormatPeople(r.ret)
         IN /\ Admissible("people", o, {"apod"})
            /\ Formatted("people", "Fetching People in Space data...", o, r, c,
                         "get_iss_location_content")
            /\ people_section_md' = IF c.raised = "none" THEN c.md ELSE people_section_md
    /\ UNCHANGED <<NASA_API_KEY, apod_section_md, iss_section_md,
                   current_update_time, new_readme_content, readmeFile, writeAttempts>>

\* Line 203: iss_section_md = get_iss_location_content()
GetIssLocationContent ==
    /\ pc = "get_iss_location_content"
    /\ \E o \in IssOutcomes :
         LET r == FetchApiData(ISS_LOCATION_API_URL, NoParams, DefaultTimeout, o)
             c == FormatIss(r.ret)
         IN /\ Admissible("iss", o, {"apod", "people"})
            /\ Formatted("iss", "Fetching ISS Location data...", o, r, c, "assemble")
            /\ iss_section_md' = IF c.raised = "none" THEN c.md ELSE iss_section_md
    /\ UNCHANGED <<NASA_API_KEY, apod_section_md, people_section_md,
                   current_update_time, new_readme_content, readmeFile, writeAttempts>>

\* Lines 208-228 and 236: the template is filled in and returned to
\* update_readme_file.  (repo_name, read from GITHUB_REPOSITORY at line 208,
\* is not used by the template.)
Assemble ==
    /\ pc = "assemble"
    /\ new_readme_content' = ReadmeTemplate(apod_section_md, people_section_md,
                                            iss_section_md, current_update_time)
    /\ pc' = "write"
    /\ UNCHANGED <<NASA_API_KEY, exitCode, raised, printed, httpGets, fetched,
                   apod_section_md, people_section_md, iss_section_md,
                   current_update_time, readmeFile, writeAttempts>>

\* What open(readme_path, "w") and f.write(content) leave in the file: opening
\* truncates, so a failure while writing leaves the old content lost.
FileAfterWrite(old, content, w) ==
    CASE w = "ok" -> content
      [] w = "open_fails" -> old
      [] w = "write_fails" -> <<>>

\* The print that follows the write attempt (lines 249 and 251).
WriteReport(w) ==
    IF w = "ok"
    THEN Msg(<<"Successfully updated README.md at: ", ReadmePath>>)
    ELSE Msg(<<"ERROR: Failed to write to README.md at ", ReadmePath, ": ", w>>)

\* Lines 242-251: the write of README.md, then the normal end of the process.
WriteReadme ==
    /\ pc = "write"
    /\ \E w \in WriteOutcomes :
         /\ readmeFile' = FileAfterWrite(readmeFile, new_readme_content, w)
         /\ printed' = printed \o <<WriteReport(w)>>
    /\ writeAttempts' = writeAttempts + 1
    /\ pc' = "done"
    /\ exitCode' = 0
    /\ UNCHANGED <<NASA_API_KEY, raised, httpGets, fetched, apod_section_md,
                   people_section_md, iss_section_md, current_update_time,
                   new_readme_content>>

Next ==
    \/ Startup
    \/ BeginUpdate
    \/ GetApodContent
    \/ GetPeopleInSpaceContent
    \/ GetIssLocationContent
    \/ Assemble
    \/ WriteReadme

Spec == Init /\ [][Next]_vars

---------------------------------------------------------------------------
\* Properties.

AllFetched == \A src \in Sources : fetched[src].called

\* The source at whose formatter the run aborted: the last one fetched.
LastFetched ==
    IF fetched["iss"].called THEN "iss"
    ELSE IF fetched["people"].called THEN "people"
    ELSE "apod"

Fragment(src) ==
    CASE src = "apod" -> apod_section_md
      [] src = "people" -> people_section_md
      [] src = "iss" -> iss_section_md

\* Number of lines of text t equal to line.
CountLines(t, line) == Cardinality({i \in 1..Len(t) : t[i] = line})

\* C1: with the credential present, whatever the three fetches return (any
\* decoded JSON shape, or any failure), the run never aborts: once the three
\* fetches are made the document is assembled and the write is reached, and
\* each source's fragment is the one its own fetch outcome determines.
C1_NeverAborts ==
    (NASA_API_KEY.set /\ NASA_API_KEY.val # "") =>
        /\ pc # "aborted"
        /\ raised = "none"
        /\ AllFetched => pc \in {"assemble", "write", "done"}
        /\ fetched["apod"].called => apod_section_md = FormatApod(fetched["apod"].ret).md
        /\ fetched["people"].called =>
               people_section_md = FormatPeople(fetched["people"].ret).md
        /\ fetched["iss"].called => iss_section_md = FormatIss(fetched["iss"].ret).md

\* C2: when NASA_API_KEY is absent or empty, the program exits with a nonzero
\* status and no HTTP request is ever issued and README.md is never opened
\* for writing.
C2_MissingKeyHalts ==
    (~NASA_API_KEY.set \/ NASA_API_KEY.val = "") =>
        /\ pc \in {"start", "exited"}
        /\ pc = "exited" => exitCode \notin {0, -1}
        /\ httpGets = <<>>
        /\ \A src \in Sources : ~fetched[src].called
        /\ writeAttempts = 0
        /\ readmeFile = OldReadme

C2_Witness ==
    /\ pc = "exited"
    /\ NASA_API_KEY.set
    /\ NASA_API_KEY.val = ""
    /\ exitCode = 1

\* The three static fallback texts, as the source spells them.
ExpectedFallback(src) ==
    CASE src = "apod" ->
           <<<<>>,
             <<"### Astronomy Picture of the Day (APOD)">>,
             <<>>,
             <<"Could not retrieve today's Astronomy Picture of the Day. Please check back later!">>,
             <<>>>>
      [] src = "people" ->
           <<<<>>,
             <<"### Humans Among the Stars">>,
             <<>>,
             <<"Could not retrieve data on people in space. Please check back later!">>,
             <<>>>>
      [] src = "iss" ->
           <<<<>>,
             <<"### Where is the ISS Right Now?">>,
             <<>>,
             <<"Could not retrieve ISS location data. Please check back later!">>,
             <<>>>>

\* C3: for each of the three formatters, if fetch_api_data returned None the
\* fragment is exactly that formatter's static fallback text.
C3_AbsentGivesFallback ==
    \A src \in Sources :
        (fetched[src].called /\ fetched[src].ret = JNull) =>
            Fragment(src) = ExpectedFallback(src)

C3_Witness ==
    /\ pc = "done"
    /\ \A src \in Sources : fetched[src].ret = JNull
    /\ iss_section_md = ExpectedFallback("iss")

\* The failure classes of a GET: an exception of requests, or a body that is
\* not JSON.
IsException(o) == o.kind \in {"Timeout", "ConnectionError", "RequestException"}

IsUndecodable(o) == o.kind = "response" /\ o.body.type = "invalid"

\* Every call of fetch_api_data issued exactly one GET, to its own URL.
OneGetPerCall ==
    /\ Len(httpGets) = Cardinality({src \in Sources : fetched[src].called})
    /\ \A i, j \in 1..Len(httpGets) : httpGets[i].url = httpGets[j].url => i = j

\* C4 as claimed: one GET per call; the decoded JSON on a 2xx status with a
\* decodable body; None and exactly one diagnostic line on a connection
\* failure, a timeout, a non-2xx status or a malformed body.
C4_AsClaimed ==
    /\ OneGetPerCall
    /\ \A src \in Sources :
         LET o == fetched[src].outcome
             failure == \/ IsException(o)
                        \/ o.kind = "response" /\ ~(o.status \in 200..299)
                        \/ IsUndecodable(o)
         IN fetched[src].called =>
              /\ failure =>
                   /\ fetched[src].ret = JNull
                   /\ Len(fetched[src].log) = 1
                   /\ Len(fetched[src].log[1]) = 1
              /\ ~failure => fetched[src].ret = o.body

\* C4 as amended: one GET per call; the decoded JSON when the response's
\* status is not 4xx/5xx and its body decodes (nothing printed); None and
\* exactly one diagnostic message (one print) on an exception of requests, a
\* 4xx/5xx status or a malformed body.
C4_FetchContract ==
    /\ OneGetPerCall
    /\ \A src \in Sources :
         LET o == fetched[src].outcome
             failure == \/ IsException(o)
                        \/ o.kind = "response" /\ o.status \in 400..599
                        \/ IsUndecodable(o)
         IN fetched[src].called =>
              /\ failure => fetched[src].ret = JNull /\ Len(fetched[src].log) = 1
              /\ ~failure => fetched[src].ret = o.body /\ fetched[src].log = <<>>

\* A 3xx final response with a decodable body is returned, not turned into None.
C4_Witness ==
    /\ fetched["people"].called
    /\ fetched["people"].outcome.status = 300
    /\ fetched["people"].ret = TypicalPeople
    /\ fetched["people"].log = <<>>
    /\ fetched["apod"].outcome.kind = "Timeout"
    /\ Len(fetched["apod"].log) = 1

\* Reading a timestamp text back: the inverse of the calendar conversion.
DigitTokens == {ToString(d) : d \in 0..9}

DigitVal(tok) == CHOOSE d \in 0..9 : ToString(d) = tok

RECURSIVE NumberOf(_)
NumberOf(digits) ==
    IF Len(digits) = 0 THEN 0
    ELSE 10 * NumberOf(SubSeq(digits, 1, Len(digits) - 1)) + DigitVal(digits[Len(digits)])

\* Day number, counted from 1970-01-01, of a civil date.
DaysFromCivil(y, m, d) ==
    LET yy == IF m <= 2 THEN y - 1 ELSE y
        era == yy \div 400
        yoe == yy - era * 400
        doy == (153 * (IF m > 2 THEN m - 3 ELSE m + 9) + 2) \div 5 + d - 1
        doe == yoe * 365 + yoe \div 4 - yoe \div 100 + doy
    IN era * 146097 + doe - 719468

\* tokens spell YYYY-MM-DD HH:MM:SS UTC with every field in range.
IsUtcStamp(tokens) ==
    /\ Len(tokens) = 20
    /\ \A i \in {1, 2, 3, 4, 6, 7, 9, 10, 12, 13, 15, 16, 18, 19} : tokens[i] \in DigitTokens
    /\ tokens[5] = "-" /\ tokens[8] = "-" /\ tokens[11] = " "
    /\ tokens[14] = ":" /\ tokens[17] = ":" /\ tokens[20] = " UTC"
    /\ NumberOf(SubSeq(tokens, 6, 7)) \in 1..12
    /\ NumberOf(SubSeq(tokens, 9, 10)) \in 1..31
    /\ NumberOf(SubSeq(tokens, 12, 13)) \in 0..23
    /\ NumberOf(SubSeq(tokens, 15, 16)) \in 0..59
    /\ NumberOf(SubSeq(tokens, 18, 19)) \in 0..59

\* Seconds since the epoch of a text that IsUtcStamp.
EpochOf(tokens) ==
    DaysFromCivil(NumberOf(SubSeq(tokens, 1, 4)), NumberOf(SubSeq(tokens, 6, 7)),
                  NumberOf(SubSeq(tokens, 9, 10))) * 86400
    + NumberOf(SubSeq(tokens, 12, 13)) * 3600
    + NumberOf(SubSeq(tokens, 15, 16)) * 60
    + NumberOf(SubSeq(tokens, 18, 19))

DocumentReturned == pc \in {"write", "done"}

\* The document ends with "*Last updated: <timestamp>*", the timestamp in the
\* fixed format.
LastUpdatedOk(d) ==
    /\ Len(d) > 0
    /\ LET last == d[Len(d)]
       IN /\ Len(last) = 22
          /\ last[1] = "*Last updated: "
          /\ last[22] = "*"
          /\ IsUtcStamp(SubSeq(last, 2, 21))

\* The header, then the three fragments in the order astronomy picture,
\* people in orbit, ISS location, each followed by a separator, then the last
\* line.
FragmentsInOrder(d) ==
    /\ Len(d) > 0
    /\ d[1] = Header
    /\ CountLines(d, ApodHeading) = 1
    /\ CountLines(d, PeopleHeading) = 1
    /\ CountLines(d, IssHeading) = 1
    /\ LET a == CHOOSE k \in 1..Len(d) : d[k] = ApodHeading
           p == CHOOSE k \in 1..Len(d) : d[k] = PeopleHeading
           i == CHOOSE k \in 1..Len(d) : d[k] = IssHeading
       IN /\ a < p /\ p < i
          /\ \E k \in (a + 1)..(p - 1) : d[k] = <<"---">>
          /\ \E k \in (p + 1)..(i - 1) : d[k] = <<"---">>
          /\ \E k \in (i + 1)..(Len(d) - 1) : d[k] = <<"---">>

\* C5 as claimed: whatever the fetches return, the document holds exactly
\* three separator lines, the three fragments in order and a well-formed
\* "Last updated" line.
C5_AsClaimed ==
    DocumentReturned =>
        /\ CountLines(new_readme_content, <<"---">>) = 3
        /\ FragmentsInOrder(new_readme_content)
        /\ LastUpdatedOk(new_readme_content)

\* C5 as amended: the document holds exactly three separator lines besides
\* those the fragments themselves carry (payload text is interpolated as it
\* is), the three fragments in order and a well-formed "Last updated" line.
C5_DocumentShape ==
    DocumentReturned =>
        /\ CountLines(new_readme_content, <<"---">>) =
               3 + CountLines(apod_section_md, <<"---">>)
                 + CountLines(people_section_md, <<"---">>)
                 + CountLines(iss_section_md, <<"---">>)
        /\ FragmentsInOrder(new_readme_content)
        /\ LastUpdatedOk(new_readme_content)

\* A document whose explanation text is itself a separator line.
C5_Witness ==
    /\ pc = "done"
    /\ readmeFile = new_readme_content
    /\ CountLines(new_readme_content, <<"---">>) = 4
    /\ fetched["people"].ret = TypicalPeople

\* The astronomy-picture payload is a mapping whose media type is (not) "video".
ApodIsVideo ==
    /\ fetched["apod"].ret.type = "object"
    /\ "media_type" \in DOMAIN fetched["apod"].ret.fields
    /\ fetched["apod"].ret.fields["media_type"] = "video"

ApodIsNotVideo == fetched["apod"].ret.type = "object" /\ ~ApodIsVideo

\* The image reference of an astronomy-picture fragment: the target of its
\* image line.
ImageLineOk(md, ref) ==
    /\ Len(md) >= 4
    /\ Len(md[4]) = 5
    /\ md[4][1] = "![" /\ md[4][3] = "](" /\ md[4][5] = ")"
    /\ md[4][4] = ref

\* hdurl if present, otherwise url if present, otherwise the placeholder.
ExpectedImage(f) ==
    IF "hdurl" \in DOMAIN f THEN f["hdurl"]
    ELSE IF "url" \in DOMAIN f THEN f["url"]
    ELSE "https://via.placeholder.com/600x400.png?text=Image+Not+Available"

\* The fragment of a picture: the explanation is its last text, no video note.
PictureFragmentOk(md, f) ==
    /\ ImageLineOk(md, ExpectedImage(f))
    /\ Len(md) = 9
    /\ md[8] = <<Get(f, "explanation", "No explanation available.")>>
    /\ md[9] = <<>>
    /\ \A i \in 1..Len(md) : \A j \in 1..Len(md[i]) :
           md[i][j] # "*Note: Today's APOD is a video. "

\* C6 as claimed: for every present payload (fetch_api_data did not return
\* None) whose media type is not "video", the image reference is hdurl, else
\* url, else the placeholder, and the explanation carries no video note.
C6_AsClaimed ==
    (fetched["apod"].called /\ ApodIsNotVideo) =>
        PictureFragmentOk(apod_section_md, fetched["apod"].ret.fields)

\* C6 as amended: the same for every present payload that is not empty (an
\* empty mapping is treated as absent and yields the fallback fragment).
C6_ImageSelection ==
    (fetched["apod"].called /\ ApodIsNotVideo /\ DOMAIN fetched["apod"].ret.fields # {}) =>
        PictureFragmentOk(apod_section_md, fetched["apod"].ret.fields)

\* Media type "image" with both URLs: the HD one is shown.
C6_Witness ==
    /\ fetched["apod"].called
    /\ fetched["apod"].ret.type = "object"
    /\ {"hdurl", "url", "media_type"} \subseteq DOMAIN fetched["apod"].ret.fields
    /\ fetched["apod"].ret.fields["media_type"] = "image"
    /\ ImageLineOk(apod_section_md, "hd.jpg")

\* C7: for a payload of media type "video": without a thumbnail the image
\* reference is the generic video placeholder, and in every case the
\* explanation is followed by the video note, which links to the payload's url
\* ("#" when there is none).
C7_VideoFragment ==
    (fetched["apod"].called /\ ApodIsVideo) =>
        LET f == fetched["apod"].ret.fields
            md == apod_section_md
        IN /\ "thumbnail_url" \notin DOMAIN f =>
                  ImageLineOk(md, "https://via.placeholder.com/600x400.png?text=APOD+Video")
           /\ Len(md) = 11
           /\ md[8] = <<Get(f, "explanation", "No explanation available.")>>
           /\ md[9] = <<>>
           /\ md[10] = <<"*Note: Today's APOD is a video. ", "[Watch Today's APOD Video](",
                         IF "url" \in DOMAIN f THEN f["url"] ELSE "#", ")", "*">>
           /\ md[11] = <<>>

\* A video without thumbnail that has both an hdurl and a url.
C7_Witness ==
    /\ fetched["apod"].called
    /\ ApodIsVideo
    /\ DOMAIN fetched["apod"].ret.fields = {"media_type", "hdurl", "url"}
    /\ apod_section_md[10][3] = "std.jpg"
    /\ apod_section_md[4][4] = "https://via.placeholder.com/600x400.png?text=APOD+Video"

\* The location payload is a mapping that is not empty and whose position (if
\* any) is a mapping.
IssPresent ==
    /\ fetched["iss"].called
    /\ fetched["iss"].ret.type = "object"
    /\ DOMAIN fetched["iss"].ret.fields # {}
    /\ "iss_position" \in DOMAIN fetched["iss"].ret.fields =>
           fetched["iss"].ret.fields["iss_position"].type = "object"

\* The timestamp text the claim asks for: the calendar time of a number, "N/A"
\* when the field is missing, "Invalid Timestamp" for every other value.
StampAsClaimed(f, stamp) ==
    IF "timestamp" \notin DOMAIN f THEN stamp = <<"N/A">>
    ELSE IF f["timestamp"].t = "int"
    THEN IsUtcStamp(stamp) /\ EpochOf(stamp) = f["timestamp"].v
    ELSE stamp = <<"Invalid Timestamp">>

\* C8: for a present location payload the formatter never raises, and the
\* "As of" line shows the calendar time of a numeric timestamp, "N/A" for a
\* missing one and "Invalid Timestamp" for every malformed one (non-numeric or
\* out of range).
C8_TimestampRendering ==
    IssPresent =>
        /\ ~(pc = "aborted" /\ LastFetched = "iss")
        /\ Len(iss_section_md) = 10
        /\ Len(iss_section_md[7]) >= 3
        /\ iss_section_md[7][1] = "*(As of "
        /\ StampAsClaimed(fetched["iss"].ret.fields,
                          SubSeq(iss_section_md[7], 2, Len(iss_section_md[7]) - 1))

\* The people-count payload is a mapping whose people entries are mappings.
PeopleIsMapping ==
    /\ fetched["people"].called
    /\ fetched["people"].ret.type = "object"
    /\ LET people == Get(fetched["people"].ret.fields, "people", <<>>)
       IN \A i \in 1..Len(people) : people[i].type = "object"

\* One bullet per entry, in list order, or the single "no names" bullet; the
\* count line states the number field.
PeopleFragmentOk(md, f) ==
    LET people == Get(f, "people", <<>>)
        n == Len(people)
        bullets == IF n = 0 THEN 1 ELSE n
    IN /\ Len(md) = 8 + bullets
       /\ md[4] = <<"There are currently **", ToString(Get(f, "number", 0)),
                    "** people in space!">>
       /\ md[6] = <<"**Onboard:**">>
       /\ \A i \in 1..n :
              md[6 + i] = <<"* ", Get(people[i].fields, "name", "Unknown Astronaut"),
                            " (", Get(people[i].fields, "craft", "Unknown Craft"), ")">>
       /\ n = 0 => md[7] = <<"* No specific names available at this time.">>
       /\ md[7 + bullets] = <<>>
       /\ md[8 + bullets] = <<>>

\* C9 as claimed: for every present people-count payload (fetch_api_data did
\* not return None) the fragment has one bullet per entry of the people list,
\* in order, with the entry's name and vehicle; one "no names" bullet when the
\* list is empty; and the count is the payload's number field.
C9_AsClaimed ==
    PeopleIsMapping =>
        PeopleFragmentOk(people_section_md, fetched["people"].ret.fields)

\* C9 as amended: the same for every present payload that is not empty (an
\* empty mapping is treated as absent and yields the fallback fragment).
C9_PeopleBullets ==
    (PeopleIsMapping /\ DOMAIN fetched["people"].ret.fields # {}) =>
        PeopleFragmentOk(people_section_md, fetched["people"].ret.fields)

\* Two entries, rendered in list order B then A.
C9_Witness ==
    /\ PeopleIsMapping
    /\ "people" \in DOMAIN fetched["people"].ret.fields
    /\ Len(fetched["people"].ret.fields["people"]) = 2
    /\ Len(people_section_md) = 10
    /\ people_section_md[7] = <<"* ", "B", " (", "Tiangong", ")">>
    /\ people_section_md[8] = <<"* ", "A", " (", "ISS", ")">>

\* The run of update_readme_file is over: it returned, or an exception left it.
UpdateOver == pc \in {"done", "aborted"}

\* C10: update_readme_file attempts the write exactly once per run, after the
\* three fetches; a failed write is logged and not retried, no exception
\* escapes and the process completes normally; a successful write leaves
\* exactly the assembled document in the file.
C10_WriteOnce ==
    /\ writeAttempts > 0 => AllFetched
    /\ writeAttempts <= 1
    /\ UpdateOver =>
         /\ writeAttempts = 1
         /\ raised = "none"
         /\ exitCode = 0
         /\ printed[Len(printed)][1][1] \in
                {"Successfully updated README.md at: ", "ERROR: Failed to write to README.md at "}
         /\ printed[Len(printed)][1][1] = "Successfully updated README.md at: " =>
                readmeFile = new_readme_content

===========================================================================
